---- MODULE Spec2Model ----
(***************************************************************************)
(* Blocklist importers (import-blocklists.py: nftables sink, cs-import.py: *)
(* CrowdSec sink).  Both scripts download IP/CIDR feeds, keep the networks *)
(* is_safe_ip accepts, collapse them, subtract CUSTOM_WHITELIST, refuse to *)
(* go on below MIN_IPS networks and hand the rest to their sink.           *)
(*                                                                         *)
(* A network is a record [version, addr, plen]: addr is the integer value  *)
(* of the network address and plen the prefix length.  Addresses are       *)
(* modelled by their leading AddrBits bits (Python: 32 bits for IPv4, 128  *)
(* for IPv6), so a "host" network of the model is a /AddrBits network.     *)
(***************************************************************************)
EXTENDS Integers, Sequences, FiniteSets, TLC

\* Width of a modelled address, both families (max_prefixlen).
AddrBits == 16
\* Longest blocklist / whitelist handed to optimize_and_filter by SpecEngine.
MaxNets == 2
MaxWl == 2
\* Number of BLOCKLISTS entries a run of Spec fetches.
NumSources == 2
\* Runs of one script started against the same lock file, in SpecGuard.
NumRuns == 2
\* Requests of one fetch_url call that are followed up to (urlopen calls that
\* came back with a status other than 200 are counted up to here).
MaxRequests == 4

\* --- CONFIGURATION ---
MIN_IPS == 200
MAX_WORKERS == 10
RETRIES == 3

VARIABLES
    script,      \* "nft" (import-blocklists.py) or "cs" (cs-import.py)
    pc,          \* position of main / of the specification's driver
    networks,    \* the raw list: v4_raw and v6_raw / raw_nets, in merge order
    whitelist,   \* the whitelist handed to optimize_and_filter
    collapsed,   \* the list after the first collapse_addresses (step 1)
    clean,       \* the list(s) optimize_and_filter returns
    feed,        \* SpecParse: the name of the source whose text is parsed
    text,        \* SpecParse: the text handed to parse_ips, a list of lines
    task,        \* per source, the future of its fetch_url call: its state,
                 \* fetch_url's local attempt and the number of requests it
                 \* has made while it runs, and its result
    processed,   \* the futures as_completed has yielded, in order
    table,       \* nftables: "prior" rules, "absent", or "loaded" with clean
    decisions,   \* CrowdSec: the values of the decisions in its database
    existing_decisions, \* cs-import.py main: what get_existing_decisions returned
    handed,      \* the networks handed to the sink (nft -f / cscli import)
    sink_calls,  \* the sink commands run so far
    outcome,     \* how the run ended ("running" until then)
    lock_file,   \* SpecGuard: the content of the script's lock file
    run          \* SpecGuard: per started run of the script, its position
                 \* in main's lock-file guard and what it read there

engine_vars == <<networks, whitelist, collapsed, clean>>
parse_vars == <<feed, text>>
fetch_vars == <<task, processed>>
sink_vars == <<table, decisions, existing_decisions, handed, sink_calls>>
\* Contents of the lock file: no file, a file with nothing written yet, a
\* file whose content is no number, and a file holding a pid (0 is the pid
\* of a process that no longer exists).
Absent == [kind |-> "absent", pid |-> 0]
Empty == [kind |-> "empty", pid |-> 0]
Garbage == [kind |-> "garbage", pid |-> 0]
PidFile(p) == [kind |-> "pid", pid |-> p]

guard_vars == <<lock_file, run>>
vars == <<script, pc, engine_vars, parse_vars, fetch_vars, sink_vars, outcome,
          guard_vars>>

----------------------------------------------------------------------------
(* ipaddress: networks *)

Pow2(n) == 2 ^ n

\* _max_prefixlen of either family, at the model's resolution.
max_prefixlen == AddrBits

Net(v, a, p) == [version |-> v, addr |-> a, plen |-> p]

\* hostmask + 1: the number of addresses of a /p network.
num_addresses(p) == Pow2(max_prefixlen - p)

network_address(n) == n.addr
broadcast_address(n) == n.addr + num_addresses(n.plen) - 1

\* ip_network(token, strict=False): host bits beyond the prefix are masked off.
ip_network(v, a, p) == Net(v, (a \div num_addresses(p)) * num_addresses(p), p)

\* _BaseNetwork.__contains__ for an address: False across families.
contains(n, v, ip) ==
    /\ n.version = v
    /\ network_address(n) <= ip
    /\ ip <= broadcast_address(n)

\* _BaseNetwork.overlaps
overlaps(self, other) ==
    \/ contains(other, self.version, network_address(self))
    \/ contains(other, self.version, broadcast_address(self))
    \/ contains(self, other.version, network_address(other))
    \/ contains(self, other.version, broadcast_address(other))

\* _BaseNetwork._is_subnet_of(a, b), called with two networks of one family
\* (it raises TypeError otherwise; see address_exclude_raises).
is_subnet_of(a, b) ==
    /\ network_address(b) <= network_address(a)
    /\ broadcast_address(b) >= broadcast_address(a)

subnet_of(self, other) == is_subnet_of(self, other)
supernet_of(self, other) == is_subnet_of(other, self)

\* _BaseNetwork.supernet(): the /0 network is its own supernet.
supernet(n) ==
    IF n.plen = 0 THEN n ELSE ip_network(n.version, n.addr, n.plen - 1)

\* _BaseNetwork.subnets(): the two halves of a network, lower half first.
subnets(n) ==
    <<Net(n.version, n.addr, n.plen + 1),
      Net(n.version, n.addr + num_addresses(n.plen + 1), n.plen + 1)>>

\* _BaseNetwork.__lt__: by network address, then by netmask.
net_lt(a, b) ==
    \/ a.addr < b.addr
    \/ a.addr = b.addr /\ a.plen < b.plen

\* The exception address_exclude raises before it yields anything.
address_exclude_raises(self, other) ==
    IF self.version # other.version THEN "TypeError"
    ELSE IF ~subnet_of(other, self) THEN "ValueError"
    ELSE "none"

\* The while loop of address_exclude: s1, s2 are the halves of the block that
\* still holds other; the half without it is yielded, the other is halved again.
RECURSIVE exclude_loop(_, _, _)
exclude_loop(s1, s2, other) ==
    IF s1 = other THEN <<s2>>
    ELSE IF s2 = other THEN <<s1>>
    ELSE IF subnet_of(other, s1)
         THEN <<s2>> \o exclude_loop(subnets(s1)[1], subnets(s1)[2], other)
         ELSE <<s1>> \o exclude_loop(subnets(s2)[1], subnets(s2)[2], other)

\* Mutant: only the first halving is done; the half that holds other is dropped
\* whole instead of being halved again.
address_exclude_one_level(self, other) ==
    IF other = self THEN <<>>
    ELSE IF subnet_of(other, subnets(self)[1]) THEN <<subnets(self)[2]>>
    ELSE <<subnets(self)[1]>>

\* _BaseNetwork.address_exclude(other), for other contained in self.
address_exclude(self, other) ==
    IF other = self THEN <<>>
    ELSE exclude_loop(subnets(self)[1], subnets(self)[2], other)

----------------------------------------------------------------------------
(* ipaddress: collapse_addresses *)

Min(a, b) == IF a <= b THEN a ELSE b

\* The elements of a sequence, as a set.
Range(seq) == {seq[i] : i \in 1..Len(seq)}

\* set(lst), kept as the list of its distinct entries in the order of their
\* first occurrence.
dedup(lst) ==
    LET first == SelectSeq([i \in 1..Len(lst) |-> i],
                           LAMBDA i : \A j \in 1..(i - 1) : lst[j] # lst[i])
    IN  [k \in 1..Len(first) |-> lst[first[k]]]

\* sorted() of a list of distinct integers.
sorted_ints(lst) == SortSeq(lst, LAMBDA a, b : a < b)

\* sorted() of a list of distinct networks of one family (by __lt__).
sorted(lst) == SortSeq(lst, net_lt)

\* _find_address_range(addresses) on a sorted, deduplicated list: one turn of
\* "for ip in it".  st.out holds the (first, last) pairs yielded so far.
find_address_range_step(ips, st) ==
    IF st.i > Len(ips) THEN st
    ELSE IF ips[st.i] # st.last + 1
         THEN [i |-> st.i + 1, first |-> ips[st.i], last |-> ips[st.i],
               out |-> Append(st.out, <<st.first, st.last>>)]
         ELSE [st EXCEPT !.i = @ + 1, !.last = ips[st.i]]

\* n turns of that loop (the n turns are composed by halves, which keeps the
\* evaluation shallow for lists of MIN_IPS networks).
RECURSIVE find_address_range_turns(_, _, _)
find_address_range_turns(ips, st, n) ==
    IF n = 0 \/ st.i > Len(ips) THEN st
    ELSE IF n = 1 THEN find_address_range_step(ips, st)
    ELSE find_address_range_turns(ips,
             find_address_range_turns(ips, st, n \div 2), n - n \div 2)

\* The loop, then the final "yield first, last".
find_address_range(ips) ==
    LET st == find_address_range_turns(ips,
                  [i |-> 2, first |-> ips[1], last |-> ips[1], out |-> <<>>],
                  Len(ips) - 1)
    IN  Append(st.out, <<st.first, st.last>>)

\* (~number & (number - 1)).bit_length(): the number of trailing zero bits.
RECURSIVE trailing_zeros(_)
trailing_zeros(number) ==
    IF number % 2 = 1 THEN 0 ELSE 1 + trailing_zeros(number \div 2)

count_righthand_zero_bits(number, bits) ==
    IF number = 0 THEN bits ELSE Min(bits, trailing_zeros(number))

\* int.bit_length() of a positive integer.
RECURSIVE bit_length(_)
bit_length(x) == IF x = 0 THEN 0 ELSE 1 + bit_length(x \div 2)

\* summarize_address_range(first, last): the while loop over first_int.
RECURSIVE summarize_address_range(_, _, _)
summarize_address_range(v, first_int, last_int) ==
    IF first_int > last_int THEN <<>>
    ELSE LET nbits == Min(count_righthand_zero_bits(first_int, max_prefixlen),
                          bit_length(last_int - first_int + 1) - 1)
             net == Net(v, first_int, max_prefixlen - nbits)
             next_int == first_int + Pow2(nbits)
         IN  IF next_int - 1 = Pow2(max_prefixlen) - 1
             THEN <<net>>
             ELSE <<net>> \o summarize_address_range(v, next_int, last_int)

\* for first, last in _find_address_range(ips): addrs.extend(summarize...),
\* for the ranges lo..hi.
RECURSIVE summarize_ranges(_, _, _, _)
summarize_ranges(v, ranges, lo, hi) ==
    IF lo > hi THEN <<>>
    ELSE IF lo = hi
         THEN summarize_address_range(v, ranges[lo][1], ranges[lo][2])
    ELSE LET mid == (lo + hi) \div 2
         IN  summarize_ranges(v, ranges, lo, mid)
             \o summarize_ranges(v, ranges, mid + 1, hi)

\* Mutant: subnets[supernet] = net whatever the dict holds, so the second of
\* two siblings replaces the first instead of merging with it.
merge_step_overwrite(st) ==
    IF st.to_merge = <<>> THEN st
    ELSE LET net == st.to_merge[Len(st.to_merge)]
             rest == SubSeq(st.to_merge, 1, Len(st.to_merge) - 1)
             others == SelectSeq(st.subnets, LAMBDA e : supernet(e) # supernet(net))
         IN  [to_merge |-> rest, subnets |-> Append(others, net)]

\* The first loop of _collapse_addresses_internal, one turn of "while
\* to_merge".  The dict subnets (supernet -> net) is kept as the list of its
\* values: the key of a value is its supernet.
merge_step(st) ==
    IF st.to_merge = <<>> THEN st
    ELSE LET net == st.to_merge[Len(st.to_merge)]
             rest == SubSeq(st.to_merge, 1, Len(st.to_merge) - 1)
             existing == SelectSeq(st.subnets, LAMBDA e : supernet(e) = supernet(net))
             others == SelectSeq(st.subnets, LAMBDA e : supernet(e) # supernet(net))
         IN  IF existing = <<>>
             THEN [to_merge |-> rest, subnets |-> Append(st.subnets, net)]
             ELSE IF existing[1] # net
                  THEN [to_merge |-> Append(rest, supernet(net)), subnets |-> others]
                  ELSE [to_merge |-> rest, subnets |-> st.subnets]

RECURSIVE merge_turns(_, _)
merge_turns(st, n) ==
    IF n = 0 \/ st.to_merge = <<>> THEN st
    ELSE IF n = 1 THEN merge_step(st)
    ELSE merge_turns(merge_turns(st, n \div 2), n - n \div 2)

\* The whole loop: a turn either moves a network from to_merge to subnets or
\* removes one from subnets, so 2 * len(addresses) turns empty to_merge.
merge_loop(addresses) ==
    merge_turns([to_merge |-> addresses, subnets |-> <<>>], 2 * Len(addresses)).subnets

\* Mutant: every sorted network is yielded, subsumed or not.
skip_subsumed_step_none(nets, st) ==
    IF st.i > Len(nets) THEN st
    ELSE [i |-> st.i + 1, last |-> <<nets[st.i]>>, out |-> Append(st.out, nets[st.i])]

\* The second loop, one turn of "for net in sorted(subnets.values())": yield
\* the network unless the last yielded one subsumes it.  last = <<>> stands
\* for None, out holds the networks yielded so far.
skip_subsumed_step(nets, st) ==
    IF st.i > Len(nets) THEN st
    ELSE IF /\ st.last # <<>>
            /\ broadcast_address(st.last[1]) >= broadcast_address(nets[st.i])
         THEN [st EXCEPT !.i = @ + 1]
         ELSE [i |-> st.i + 1, last |-> <<nets[st.i]>>, out |-> Append(st.out, nets[st.i])]

RECURSIVE skip_subsumed_turns(_, _, _)
skip_subsumed_turns(nets, st, n) ==
    IF n = 0 \/ st.i > Len(nets) THEN st
    ELSE IF n = 1 THEN skip_subsumed_step(nets, st)
    ELSE skip_subsumed_turns(nets, skip_subsumed_turns(nets, st, n \div 2), n - n \div 2)

skip_subsumed(nets) ==
    skip_subsumed_turns(nets, [i |-> 1, last |-> <<>>, out |-> <<>>], Len(nets)).out

collapse_addresses_internal(addresses) ==
    skip_subsumed(sorted(merge_loop(addresses)))

\* collapse_addresses(addresses) for a list of networks of one family (a list
\* of mixed families raises TypeError; neither script passes one).  Host
\* networks go through the address path (ips), the others through nets.
collapse_addresses(addresses) ==
    IF addresses = <<>> THEN <<>>
    ELSE LET v == addresses[1].version
             hosts == SelectSeq(addresses, LAMBDA n : n.plen = max_prefixlen)
             ips == sorted_ints(dedup([i \in 1..Len(hosts) |-> hosts[i].addr]))
             nets == SelectSeq(addresses, LAMBDA n : n.plen # max_prefixlen)
             addrs == IF ips = <<>> THEN <<>>
                      ELSE LET ranges == find_address_range(ips)
                           IN  summarize_ranges(v, ranges, 1, Len(ranges))
         IN  collapse_addresses_internal(addrs \o nets)

----------------------------------------------------------------------------
(* is_safe_ip *)

\* An address given by its leading 16 bits (two IPv4 octets, one IPv6 group).
Hi16(x) == x * Pow2(AddrBits - 16)

\* ipaddress._IPv4Constants / _IPv6Constants, the blocks of at most 16 prefix
\* bits (a longer block cannot hold a network of the model).
v4_private_networks ==
    {Net(4, Hi16(0), 8),          \* 0.0.0.0/8
     Net(4, Hi16(2560), 8),       \* 10.0.0.0/8
     Net(4, Hi16(32512), 8),      \* 127.0.0.0/8
     Net(4, Hi16(43518), 16),     \* 169.254.0.0/16
     Net(4, Hi16(44048), 12),     \* 172.16.0.0/12
     Net(4, Hi16(49320), 16),     \* 192.168.0.0/16
     Net(4, Hi16(50706), 15),     \* 198.18.0.0/15
     Net(4, Hi16(61440), 4)}      \* 240.0.0.0/4
v4_loopback_network == Net(4, Hi16(32512), 8)      \* 127.0.0.0/8
v4_linklocal_network == Net(4, Hi16(43518), 16)    \* 169.254.0.0/16
v4_multicast_network == Net(4, Hi16(57344), 4)     \* 224.0.0.0/4
v4_reserved_network == Net(4, Hi16(61440), 4)      \* 240.0.0.0/4

v6_private_networks ==
    {Net(6, Hi16(64512), 7),      \* fc00::/7
     Net(6, Hi16(65152), 10)}     \* fe80::/10
v6_linklocal_network == Net(6, Hi16(65152), 10)    \* fe80::/10
v6_multicast_network == Net(6, Hi16(65280), 8)     \* ff00::/8
v6_reserved_networks ==
    {Net(6, Hi16(0), 8),     Net(6, Hi16(256), 8),   Net(6, Hi16(512), 7),
     Net(6, Hi16(1024), 6),  Net(6, Hi16(2048), 5),  Net(6, Hi16(4096), 4),
     Net(6, Hi16(16384), 3), Net(6, Hi16(24576), 3), Net(6, Hi16(32768), 3),
     Net(6, Hi16(40960), 3), Net(6, Hi16(49152), 3), Net(6, Hi16(57344), 4),
     Net(6, Hi16(61440), 5), Net(6, Hi16(63488), 6), Net(6, Hi16(65024), 9)}

\* IPv4Address / IPv6Address properties of the address ip of family v.
addr_is_loopback(v, ip) ==
    \* IPv6: only ::1, which is no network or broadcast address of the model
    v = 4 /\ contains(v4_loopback_network, v, ip)
addr_is_link_local(v, ip) ==
    contains(IF v = 4 THEN v4_linklocal_network ELSE v6_linklocal_network, v, ip)
addr_is_multicast(v, ip) ==
    contains(IF v = 4 THEN v4_multicast_network ELSE v6_multicast_network, v, ip)
addr_is_reserved(v, ip) ==
    \E r \in (IF v = 4 THEN {v4_reserved_network} ELSE v6_reserved_networks) :
        contains(r, v, ip)

\* _BaseNetwork properties: the private block must hold both ends of the
\* network; the others ask the network and the broadcast address separately.
is_private(net) ==
    \E priv \in (IF net.version = 4 THEN v4_private_networks
                 ELSE v6_private_networks) :
        /\ contains(priv, net.version, network_address(net))
        /\ contains(priv, net.version, broadcast_address(net))
is_loopback(net) ==
    /\ addr_is_loopback(net.version, network_address(net))
    /\ addr_is_loopback(net.version, broadcast_address(net))
is_link_local(net) ==
    /\ addr_is_link_local(net.version, network_address(net))
    /\ addr_is_link_local(net.version, broadcast_address(net))
is_multicast(net) ==
    /\ addr_is_multicast(net.version, network_address(net))
    /\ addr_is_multicast(net.version, broadcast_address(net))
is_reserved(net) ==
    /\ addr_is_reserved(net.version, network_address(net))
    /\ addr_is_reserved(net.version, broadcast_address(net))

\* str(net).startswith('0.'): the first octet of the network address is 0.
starts_with_zero(net) == net.addr \div Pow2(AddrBits - 8) = 0

is_safe_ip(net) ==
    IF is_private(net) \/ is_loopback(net) \/ is_link_local(net)
       \/ is_multicast(net) \/ is_reserved(net)
    THEN FALSE
    ELSE IF net.version = 4 /\ starts_with_zero(net) THEN FALSE
    ELSE TRUE

----------------------------------------------------------------------------
(* parse_ips *)

\* A line of a feed, after the comment is cut off and the line stripped:
\*   kind "blank": nothing is left;
\*   kind "net":   the first column is an address of family version, alone
\*                 (plen = NoPrefix) or with a prefix length;
\*   kind "text":  the first column is no address; embedded is the first
\*                 dotted quad found anywhere in the line (NoAddr: none).
\* col3 is the third column when the line has one made of digits (else NoCol).
NoPrefix == -1
NoCol == -1
NoAddr == -1
Line(k, v, a, p, c3, e) ==
    [kind |-> k, version |-> v, addr |-> a, plen |-> p, col3 |-> c3, embedded |-> e]
BlankLine == Line("blank", 0, 0, NoPrefix, NoCol, NoAddr)

\* cs-import.py, "1. DShield Handling": <<net>>, or <<>> for net = None.
dshield_net(name, line) ==
    IF /\ name = "DShield"
       /\ line.col3 # NoCol
       /\ 0 <= line.col3 /\ line.col3 <= max_prefixlen
       /\ line.kind = "net" /\ line.plen = NoPrefix
    THEN <<ip_network(line.version, line.addr, line.col3)>>
    ELSE <<>>

\* "Direct Parsing" of the first column, then "Regex Extraction".
standard_net(line) ==
    IF line.kind = "net"
    THEN <<ip_network(line.version, line.addr,
                      IF line.plen = NoPrefix THEN max_prefixlen ELSE line.plen)>>
    ELSE IF line.embedded # NoAddr
         THEN <<ip_network(4, line.embedded, max_prefixlen)>>
         ELSE <<>>

\* One turn of "for line in text.splitlines()": what the line adds to
\* valid_nets.  import-blocklists.py has no DShield handling.
parse_line(scr, name, line) ==
    IF line.kind = "blank" THEN <<>>
    ELSE LET ds == IF scr = "cs" THEN dshield_net(name, line) ELSE <<>>
             net == IF ds # <<>> THEN ds ELSE standard_net(line)
         IN  IF net # <<>> /\ is_safe_ip(net[1]) THEN net ELSE <<>>

RECURSIVE parse_lines(_, _, _, _, _)
parse_lines(scr, name, txt, lo, hi) ==
    IF lo > hi THEN <<>>
    ELSE IF lo = hi THEN parse_line(scr, name, txt[lo])
    ELSE LET mid == (lo + hi) \div 2
         IN  parse_lines(scr, name, txt, lo, mid)
             \o parse_lines(scr, name, txt, mid + 1, hi)

\* parse_ips: a list in import-blocklists.py; a set in cs-import.py (kept as a
\* list without repeats: the order in which the set is later read is not
\* specified, and optimize_and_filter sorts).
parse_ips(scr, name, txt) ==
    IF scr = "cs" THEN dedup(parse_lines(scr, name, txt, 1, Len(txt)))
    ELSE parse_lines(scr, name, txt, 1, Len(txt))

----------------------------------------------------------------------------
(* optimize_and_filter *)

\* Mutant: a whitelist network of the other family drops the candidate.
cut_candidate_drop_mismatch(candidate, wl) ==
    IF candidate.version # wl.version THEN <<>>
    ELSE IF ~overlaps(candidate, wl) THEN <<candidate>>
    ELSE IF supernet_of(wl, candidate) \/ wl = candidate THEN <<>>
    ELSE IF address_exclude_raises(candidate, wl) = "ValueError" THEN <<>>
    ELSE address_exclude(candidate, wl)

\* The body of "for candidate in candidates": what one candidate adds to
\* new_candidates when cut by the whitelist network wl.
cut_candidate(candidate, wl) ==
    IF ~overlaps(candidate, wl) THEN <<candidate>>
    ELSE IF supernet_of(wl, candidate) \/ wl = candidate THEN <<>>
    ELSE IF address_exclude_raises(candidate, wl) = "ValueError" THEN <<>>
    ELSE address_exclude(candidate, wl)

\* new_candidates after the loop over candidates, for one wl.
RECURSIVE new_candidates(_, _, _)
new_candidates(candidates, wl, i) ==
    IF i > Len(candidates) THEN <<>>
    ELSE cut_candidate(candidates[i], wl) \o new_candidates(candidates, wl, i + 1)

\* Mutant: the loop breaks after its first whitelist entry.
whitelist_loop_first_only(candidates, whitelist_nets, j) ==
    IF j > Len(whitelist_nets) THEN candidates
    ELSE new_candidates(candidates, whitelist_nets[j], 1)

\* "for wl in whitelist_nets", from the j-th entry on; an empty candidate
\* list breaks out of the loop.
RECURSIVE whitelist_loop(_, _, _)
whitelist_loop(candidates, whitelist_nets, j) ==
    IF j > Len(whitelist_nets) THEN candidates
    ELSE LET nc == new_candidates(candidates, whitelist_nets[j], 1)
         IN  IF nc = <<>> THEN <<>>
             ELSE whitelist_loop(nc, whitelist_nets, j + 1)

\* "for net in networks": final_list.extend(candidates).
RECURSIVE networks_range(_, _, _, _)
networks_range(nets, whitelist_nets, lo, hi) ==
    IF lo > hi THEN <<>>
    ELSE IF lo = hi THEN whitelist_loop(<<nets[lo]>>, whitelist_nets, 1)
    ELSE LET mid == (lo + hi) \div 2
         IN  networks_range(nets, whitelist_nets, lo, mid)
             \o networks_range(nets, whitelist_nets, mid + 1, hi)

networks_loop(nets, whitelist_nets) ==
    networks_range(nets, whitelist_nets, 1, Len(nets))

\* [ipaddress.ip_network(w, strict=False) for w in whitelist]
whitelist_networks(wl) ==
    [i \in 1..Len(wl) |-> ip_network(wl[i].version, wl[i].addr, wl[i].plen)]

of_version(nets, v) == SelectSeq(nets, LAMBDA n : n.version = v)

\* import-blocklists.py: optimize_and_filter(networks, whitelist); networks
\* holds one family, whitelist the whole CUSTOM_WHITELIST.
optimize_and_filter(nets, wl) ==
    collapse_addresses(
        networks_loop(collapse_addresses(nets), whitelist_networks(wl)))

\* cs-import.py: process_list(nets, wl_nets)
process_list(nets, wl_nets) ==
    IF nets = <<>> THEN <<>>
    ELSE collapse_addresses(networks_loop(collapse_addresses(nets), wl_nets))

\* cs-import.py: optimize_and_filter(networks, whitelist) = final_v4 + final_v6
cs_optimize_and_filter(nets, wl) ==
    process_list(of_version(nets, 4), of_version(whitelist_networks(wl), 4))
    \o process_list(of_version(nets, 6), of_version(whitelist_networks(wl), 6))

----------------------------------------------------------------------------
(* SpecEngine: optimize_and_filter applied to every small input *)

\* The networks of the block root: root, its halves, ... down to its hosts.
Subtree(root) ==
    {n \in [version : {root.version},
            addr : root.addr..broadcast_address(root),
            plen : root.plen..max_prefixlen] : n.addr % num_addresses(n.plen) = 0}

\* The sample blocks the inputs are drawn from: the IPv4 block of four hosts
\* at 1.0.0.0 (it holds the whitelisted 1.1.1.1) and 2606::, two IPv6 hosts.
EngineBlock4 == Net(4, Hi16(256), max_prefixlen - 2)
EngineBlock6 == Net(6, Hi16(9734), max_prefixlen - 1)
EngineNets == Subtree(EngineBlock4) \cup {EngineBlock6}
EngineWl == (Subtree(EngineBlock4) \ {EngineBlock4}) \cup {subnets(EngineBlock6)[1]}

\* The variables of a whole run, in SpecEngine and SpecParse, which run none.
NoRun ==
    /\ task = <<>>
    /\ processed = <<>>
    /\ table = "prior"
    /\ decisions = {}
    /\ existing_decisions = {}
    /\ handed = {}
    /\ sink_calls = <<>>
    /\ outcome = "running"
    /\ lock_file = Absent
    /\ run = <<>>

BoundedSeq(S, n) == UNION {[1..k -> S] : k \in 0..n}

InitEngine ==
    /\ script = "none"
    /\ pc = "engine"
    /\ networks \in BoundedSeq(EngineNets, MaxNets)
    /\ whitelist \in BoundedSeq(EngineWl, MaxWl)
    /\ collapsed = <<>>
    /\ clean = <<>>
    /\ feed = "none"
    /\ text = <<>>
    /\ NoRun

\* import-blocklists.py main, step 2: one call per family, on v4_raw and v6_raw.
EngineNft ==
    /\ pc = "engine"
    /\ script' = "nft"
    /\ collapsed' = collapse_addresses(of_version(networks, 4))
                    \o collapse_addresses(of_version(networks, 6))
    /\ clean' = optimize_and_filter(of_version(networks, 4), whitelist)
                \o optimize_and_filter(of_version(networks, 6), whitelist)
    /\ pc' = "engine_done"
    /\ UNCHANGED <<networks, whitelist, parse_vars, guard_vars, fetch_vars, sink_vars, outcome>>

\* cs-import.py main: one call on raw_nets.
EngineCs ==
    /\ pc = "engine"
    /\ script' = "cs"
    /\ collapsed' = collapse_addresses(of_version(networks, 4))
                    \o collapse_addresses(of_version(networks, 6))
    /\ clean' = cs_optimize_and_filter(networks, whitelist)
    /\ pc' = "engine_done"
    /\ UNCHANGED <<networks, whitelist, parse_vars, guard_vars, fetch_vars, sink_vars, outcome>>

NextEngine == EngineNft \/ EngineCs

SpecEngine == InitEngine /\ [][NextEngine]_vars

----------------------------------------------------------------------------
(* SpecParse: parse_ips applied to sample lines *)

\* Addresses the sample lines are built from, by their leading 16 bits:
\* 0.5, 1.2, 8.8, 10.0, 11.0, 100.64, 127.0, 128.0, 169.254, 172.16,
\* 192.168, 198.18, 224.0, 240.0, 255.255.
SampleAddrs4 ==
    {Hi16(x) : x \in {5, 258, 2056, 2560, 2816, 25664, 32512, 32768, 43518,
                      44048, 49320, 50706, 57344, 61440, 65535}}
\* 2001:, 2606:, fc00:, fe80:, ff02:
SampleAddrs6 == {Hi16(x) : x \in {8193, 9734, 64512, 65152, 65282}}
\* A third column: none, a prefix length, a number that is no prefix length.
SampleCol3 == {NoCol, 8, max_prefixlen + 1}

SampleLines ==
    {Line("net", 4, a, p, c3, NoAddr) :
        a \in SampleAddrs4, p \in {NoPrefix} \cup 0..max_prefixlen, c3 \in SampleCol3}
    \cup {Line("net", 6, a, p, NoCol, NoAddr) :
        a \in SampleAddrs6, p \in {NoPrefix} \cup 0..max_prefixlen}
    \cup {Line("text", 0, 0, NoPrefix, c3, e) :
        c3 \in {NoCol, 8}, e \in {NoAddr, Hi16(258), Hi16(2560)}}
    \cup {BlankLine}

\* One sample line, alone or followed by a second line (1.2.0.0/15 written
\* with host bits set, or a blank line).
SampleTexts ==
    {<<l>> : l \in SampleLines}
    \cup {<<l, m>> : l \in SampleLines,
                     m \in {Line("net", 4, Hi16(259), max_prefixlen - 1, NoCol, NoAddr),
                            BlankLine}}

InitParse ==
    /\ script = "none"
    /\ pc = "parse"
    /\ feed \in {"DShield", "IPsum"}
    /\ text \in SampleTexts
    /\ networks = <<>>
    /\ whitelist = <<>>
    /\ collapsed = <<>>
    /\ clean = <<>>
    /\ NoRun

\* import-blocklists.py: nets = parse_ips(content)
ParseNft ==
    /\ pc = "parse"
    /\ script' = "nft"
    /\ networks' = parse_ips("nft", feed, text)
    /\ pc' = "parsed"
    /\ UNCHANGED <<whitelist, collapsed, clean, parse_vars, guard_vars, fetch_vars, sink_vars, outcome>>

\* cs-import.py: nets = parse_ips(name, content)
ParseCs ==
    /\ pc = "parse"
    /\ script' = "cs"
    /\ networks' = parse_ips("cs", feed, text)
    /\ pc' = "parsed"
    /\ UNCHANGED <<whitelist, collapsed, clean, parse_vars, guard_vars, fetch_vars, sink_vars, outcome>>

NextParse == ParseNft \/ ParseCs

SpecParse == InitParse /\ [][NextParse]_vars

\* The address blocks is_safe_ip is to keep out of the blocklist: private
\* use, loopback, link-local, multicast, reserved, and 0.0.0.0/8.
SpecialRanges ==
    v4_private_networks
    \cup {v4_loopback_network, v4_linklocal_network, v4_multicast_network,
          v4_reserved_network, Net(4, 0, 8)}
    \cup v6_private_networks
    \cup {v6_linklocal_network, v6_multicast_network}
    \cup v6_reserved_networks

\* C7: no network that parse_ips lets through (is_safe_ip returned True for
\* it) covers an address of a special range: is_safe_ip is False for every
\* network that is in, or intersects, such a range.
C7_NoSpecialAddressAccepted ==
    pc = "parsed" =>
        \A n \in Range(networks) : \A r \in SpecialRanges : ~overlaps(n, r)

----------------------------------------------------------------------------
(* Claims about optimize_and_filter, under SpecEngine *)

\* The addresses a network covers, tagged with its family.
addresses(n) == {<<n.version, a>> : a \in network_address(n)..broadcast_address(n)}
coverage(nets) == UNION {addresses(nets[i]) : i \in 1..Len(nets)}

Families == {4, 6}
EngineDone == pc = "engine_done"

\* C1: coverage conservation.  For each family, the addresses covered by what
\* optimize_and_filter returns are exactly the addresses of the blocklist
\* minus the addresses of the whitelist networks of that family.
C1_CoverageConservation ==
    EngineDone =>
        \A v \in Families :
            coverage(of_version(clean, v)) =
                coverage(of_version(networks, v))
                \ coverage(of_version(whitelist_networks(whitelist), v))

\* A whitelist network lies strictly inside a collapsed network, which is
\* split, and part of it survives.
C1_Witness ==
    /\ EngineDone
    /\ clean # <<>>
    /\ \E n \in Range(collapsed), w \in Range(whitelist_networks(whitelist)) :
          overlaps(n, w) /\ w # n /\ ~supernet_of(w, n)

\* No two members of a list overlap (a duplicate or a subnet of another
\* member overlaps it).
Disjoint(nets) ==
    \A i, j \in 1..Len(nets) : i # j => ~overlaps(nets[i], nets[j])

\* C2: disjointness.  After the first collapse and in the returned list, no
\* two networks of a family overlap and none is a subnet of another.
C2_Disjointness ==
    EngineDone =>
        \A v \in Families :
            /\ Disjoint(of_version(collapsed, v))
            /\ Disjoint(of_version(clean, v))
            /\ \A i, j \in 1..Len(clean) :
                  i # j /\ clean[i].version = clean[j].version
                      => ~subnet_of(clean[i], clean[j])

\* The input holds two overlapping networks and the output several.
C2_Witness ==
    /\ EngineDone
    /\ Len(clean) >= 2
    /\ \E i, j \in 1..Len(networks) : i # j /\ overlaps(networks[i], networks[j])

\* A list in a canonical order: by family, address, prefix length (equal
\* entries by position).
CanonicalOrder(nets) ==
    LET before(i, j) ==
            \/ nets[i].version < nets[j].version
            \/ nets[i].version = nets[j].version /\ net_lt(nets[i], nets[j])
            \/ nets[i] = nets[j] /\ i < j
        rk == [i \in 1..Len(nets) |->
                  Cardinality({j \in 1..Len(nets) : before(j, i)})]
    IN  [k \in 1..Len(nets) |-> nets[CHOOSE i \in 1..Len(nets) : rk[i] = k - 1]]

\* What the script at hand returns for a blocklist and a whitelist.
Optimized(nets, wl) ==
    IF script = "nft"
    THEN optimize_and_filter(of_version(nets, 4), wl)
         \o optimize_and_filter(of_version(nets, 6), wl)
    ELSE cs_optimize_and_filter(nets, wl)

\* C3: order independence.  Whatever the order of the blocklist and of the
\* whitelist, the returned set is the one returned for the same entries in
\* canonical order (so any two orders of the same entries agree).
C3_OrderIndependence ==
    EngineDone =>
        Range(clean) =
            Range(Optimized(CanonicalOrder(networks), CanonicalOrder(whitelist)))

\* Two different whitelist networks both cut one blocklist network, and the
\* blocklist is not in canonical order.
C3_Witness ==
    /\ EngineDone
    /\ Len(networks) >= 2 /\ CanonicalOrder(networks) # networks
    /\ Len(whitelist) >= 2 /\ CanonicalOrder(whitelist) # whitelist
    /\ clean # <<>>
    /\ \E n \in Range(collapsed) :
          \A k \in 1..2 :
              /\ overlaps(n, whitelist[k])
              /\ ~supernet_of(whitelist[k], n)

\* C4: the Collapser.  Collapsing its result again changes nothing; the
\* result holds no network twice, no network of the input that another one
\* contains, and no two halves of one parent (the parent, or a network
\* containing it, takes their place).
C4_CollapseIdempotent ==
    EngineDone =>
        \A v \in Families :
            LET input == of_version(networks, v)
                c == of_version(collapsed, v)
            IN  /\ collapse_addresses(c) = c
                /\ Len(c) = Cardinality(Range(c))
                /\ \A a, b \in Range(input) :
                      a # b /\ subnet_of(a, b) => a \notin Range(c)
                /\ \A a, b \in Range(input) :
                      a # b /\ a.plen = b.plen /\ supernet(a) = supernet(b)
                          => /\ a \notin Range(c)
                             /\ b \notin Range(c)
                             /\ \E m \in Range(c) : subnet_of(supernet(a), m)

\* Two sibling networks (not hosts) were merged into their parent.
C4_Witness ==
    /\ EngineDone
    /\ Len(networks) = 2
    /\ networks[1] # networks[2]
    /\ networks[1].plen = networks[2].plen
    /\ networks[1].plen < max_prefixlen
    /\ supernet(networks[1]) = supernet(networks[2])
    /\ collapsed = <<supernet(networks[1])>>

\* The <<candidate, wl>> pairs for which the whitelist loop, started on
\* candidates at entry j, runs into the "except ValueError" branch.
RECURSIVE ValueErrors(_, _, _)
ValueErrors(candidates, whitelist_nets, j) ==
    IF j > Len(whitelist_nets) \/ candidates = <<>> THEN {}
    ELSE {<<candidates[i], whitelist_nets[j]>> : i \in
             {k \in 1..Len(candidates) :
                 /\ overlaps(candidates[k], whitelist_nets[j])
                 /\ ~supernet_of(whitelist_nets[j], candidates[k])
                 /\ whitelist_nets[j] # candidates[k]
                 /\ address_exclude_raises(candidates[k], whitelist_nets[j]) # "none"}}
         \cup ValueErrors(new_candidates(candidates, whitelist_nets[j], 1),
                          whitelist_nets, j + 1)

\* C8 as stated: a candidate that meets a whitelist network of the other
\* family is dropped from the output.
C8_MismatchDropped ==
    EngineDone /\ script = "nft" =>
        \A n \in Range(collapsed), w \in Range(whitelist_networks(whitelist)) :
            n.version # w.version => addresses(n) \cap coverage(clean) = {}

\* C8 amended: a whitelist network of the other family does not overlap a
\* candidate and leaves it in the output (a network that no whitelist network
\* of its own family overlaps is kept whole), and address_exclude never
\* raises: no fragment is dropped for want of a subdivision.
C8_MismatchKept ==
    EngineDone /\ script = "nft" =>
        \A n \in Range(collapsed) :
            /\ ValueErrors(<<n>>, whitelist_networks(whitelist), 1) = {}
            /\ (\A w \in Range(whitelist_networks(whitelist)) :
                    w.version = n.version => ~overlaps(n, w))
                  => addresses(n) \subseteq coverage(clean)

\* An IPv4 network met an IPv6 whitelist entry and is in the output.
C8_Witness ==
    /\ EngineDone /\ script = "nft"
    /\ \E n \in Range(collapsed), w \in Range(whitelist_networks(whitelist)) :
          n.version # w.version /\ n \in Range(clean)

----------------------------------------------------------------------------
(* Spec: a whole run of either script *)

\* The run is modelled with the first NumSources of these BLOCKLISTS entries.
BLOCKLISTS == <<"AbuseIPDB", "IPsum", "DShield", "Spamhaus DROPv6">>
Sources == 1..NumSources

\* 1.1.1.1, 8.8.8.8, ::1, 2001:4860:4860::8888, 2606:4700:4700::1111 at the
\* model's resolution (the leading 16 bits of each address).
CUSTOM_WHITELIST ==
    << Net(4, Hi16(257), max_prefixlen), Net(4, Hi16(2056), max_prefixlen),
       Net(6, Hi16(0), max_prefixlen), Net(6, Hi16(8193), max_prefixlen),
       Net(6, Hi16(9734), max_prefixlen) >>

\* The bodies a source's URL can answer with (HTTP 200).
\*   "hosts"    MIN_IPS isolated public IPv4 hosts: exactly the threshold
\*   "fewer"    the first MIN_IPS - 1 of them: one below the threshold
\*   "mixed"    10.0.0.0/8 (unsafe), 1.1.x.x (whitelisted), 1.3.x.x/15 (host
\*              bits set), 2606:: (whitelisted), a comment and a blank line:
\*              one clean network
\*   "comments" comment lines only: no network
\*   "dshield"  one "start end prefix" line
\*   "v6"       one IPv6 network
Bodies(name) ==
    CASE name = "AbuseIPDB" -> {"hosts", "fewer"}
      [] name = "IPsum" -> {"mixed", "comments"}
      [] name = "DShield" -> {"dshield"}
      [] OTHER -> {"v6"}

TextOf(body) ==
    CASE body = "hosts" ->
            [i \in 1..MIN_IPS |->
                Line("net", 4, Hi16(8192 + 2 * i), NoPrefix, NoCol, NoAddr)]
      [] body = "fewer" ->
            [i \in 1..(MIN_IPS - 1) |->
                Line("net", 4, Hi16(8192 + 2 * i), NoPrefix, NoCol, NoAddr)]
      [] body = "mixed" ->
            << Line("net", 4, Hi16(2560), max_prefixlen - 8, NoCol, NoAddr),
               Line("net", 4, Hi16(257), NoPrefix, NoCol, NoAddr),
               Line("net", 4, Hi16(259), max_prefixlen - 1, NoCol, NoAddr),
               Line("net", 6, Hi16(9734), NoPrefix, NoCol, NoAddr),
               Line("text", 0, 0, NoPrefix, NoCol, NoAddr),
               BlankLine >>
      [] body = "comments" ->
            << Line("text", 0, 0, NoPrefix, NoCol, NoAddr), BlankLine >>
      [] body = "dshield" ->
            << Line("net", 4, Hi16(11776), NoPrefix, 8, NoAddr) >>
      [] OTHER ->
            << Line("net", 6, Hi16(10752), max_prefixlen - 4, NoCol, NoAddr) >>

\* str(net), the form in which networks reach cscli and are compared with
\* the values of the decisions database.
net_str(n) == <<n.version, n.addr, n.plen>>

\* The decisions in CrowdSec's database before the run: the hosts of body
\* "hosts", imported by an earlier run, and one decision of another origin.
PriorDecisions ==
    {net_str(Net(4, Hi16(8192 + 2 * i), max_prefixlen)) : i \in 1..MIN_IPS}
    \cup {net_str(Net(4, Hi16(16384), max_prefixlen - 2))}

Init ==
    /\ script \in {"nft", "cs"}
    /\ pc = IF script = "cs" THEN "detect_mode" ELSE "submit"
    /\ networks = <<>>
    /\ whitelist = CUSTOM_WHITELIST
    /\ collapsed = <<>>
    /\ clean = <<>>
    /\ feed = "none"
    /\ text = <<>>
    /\ task = [s \in Sources |-> [state |-> "unsubmitted", attempt |-> 0, requests |-> 0,
                          result |-> "None"]]
    /\ processed = <<>>
    /\ table = "prior"
    /\ decisions = IF script = "cs" THEN PriorDecisions ELSE {}
    /\ existing_decisions = {}
    /\ handed = {}
    /\ sink_calls = <<>>
    /\ outcome = "running"
    /\ lock_file = Absent
    /\ run = <<>>

\* cs-import.py detect_mode: "native", "docker", or sys.exit(1).
DetectMode ==
    /\ pc = "detect_mode"
    /\ \/ pc' = "submit" /\ outcome' = outcome
       \/ pc' = "done" /\ outcome' = "no_crowdsec"
    /\ UNCHANGED <<script, engine_vars, parse_vars, guard_vars, fetch_vars, sink_vars>>

\* get_blocklists: executor.submit(fetch_url, name, url) for every source.
Submit ==
    /\ pc = "submit"
    /\ task' = [s \in Sources |-> [task[s] EXCEPT !.state = "queued"]]
    /\ pc' = "as_completed"
    /\ UNCHANGED <<script, engine_vars, parse_vars, guard_vars, processed, sink_vars, outcome>>

\* ThreadPoolExecutor(max_workers=MAX_WORKERS): a queued call starts when a
\* worker is free.
StartTask(s) ==
    /\ task[s].state = "queued"
    /\ Cardinality({t \in Sources : task[t].state = "running"}) < MAX_WORKERS
    /\ task' = [task EXCEPT ![s].state = "running"]
    /\ UNCHANGED <<script, pc, engine_vars, parse_vars, guard_vars, processed, sink_vars, outcome>>

\* fetch_url, one turn of "while attempt < RETRIES": status 200, the body is
\* returned.
FetchOk(s) ==
    /\ task[s].state = "running"
    /\ task[s].attempt < RETRIES
    /\ \E body \in Bodies(BLOCKLISTS[s]) :
          task' = [task EXCEPT ![s].state = "done", ![s].attempt = 0,
                               ![s].requests = 0, ![s].result = body]
    /\ UNCHANGED <<script, pc, engine_vars, parse_vars, guard_vars, processed, sink_vars, outcome>>

\* fetch_url, one turn: urlopen raises; None after RETRIES exceptions.
FetchRaise(s) ==
    /\ task[s].state = "running"
    /\ task[s].attempt < RETRIES
    /\ task' = IF task[s].attempt + 1 = RETRIES
                THEN [task EXCEPT ![s].state = "done", ![s].attempt = 0,
                                  ![s].requests = 0]
                ELSE [task EXCEPT ![s].attempt = @ + 1, ![s].requests = @ + 1]
    /\ UNCHANGED <<script, pc, engine_vars, parse_vars, guard_vars, processed, sink_vars, outcome>>

\* fetch_url, one turn: a response whose status is not 200 and no exception;
\* attempt is not incremented and the loop goes round again.
FetchNot200(s) ==
    /\ task[s].state = "running"
    /\ task[s].attempt < RETRIES
    /\ task[s].requests < MaxRequests
    /\ task' = [task EXCEPT ![s].requests = @ + 1]
    /\ UNCHANGED <<script, pc, engine_vars, parse_vars, guard_vars, processed, sink_vars, outcome>>

\* Mutant: a future is yielded as soon as its call has started.
started(s) == task[s].state \in {"running", "done"}

\* as_completed(future_to_name) yields a future once its call has returned.
completed(s) == task[s].state = "done"

\* get_blocklists, one turn of "for future in as_completed(...)", run by the
\* main thread: content = future.result(), parse_ips, extend the raw list(s).
Consume(s) ==
    /\ pc = "as_completed"
    /\ completed(s)
    /\ s \notin Range(processed)
    /\ LET content == task[s].result
           nets == IF content = "None" THEN <<>>
                   ELSE parse_ips(script, BLOCKLISTS[s], TextOf(content))
       IN  networks' = networks \o nets
    /\ processed' = Append(processed, s)
    /\ UNCHANGED <<script, pc, whitelist, collapsed, clean, parse_vars, guard_vars, task,
                   sink_vars, outcome>>

\* get_blocklists returns when as_completed has yielded every future.
ReturnLists ==
    /\ pc = "as_completed"
    /\ Range(processed) = Sources
    /\ pc' = "check_raw"
    /\ UNCHANGED <<script, engine_vars, parse_vars, guard_vars, fetch_vars, sink_vars, outcome>>

\* "if not v4_raw and not v6_raw" / "if not raw_nets"
no_ips_either_family(scr, nets) ==
    IF scr = "nft"
    THEN of_version(nets, 4) = <<>> \/ of_version(nets, 6) = <<>>
    ELSE nets = <<>>

no_ips(scr, nets) ==
    IF scr = "nft"
    THEN of_version(nets, 4) = <<>> /\ of_version(nets, 6) = <<>>
    ELSE nets = <<>>

CheckRaw ==
    /\ pc = "check_raw"
    /\ IF no_ips(script, networks)
       THEN pc' = "done" /\ outcome' = "no_ips"
       ELSE pc' = "optimize" /\ outcome' = outcome
    /\ UNCHANGED <<script, engine_vars, parse_vars, guard_vars, fetch_vars, sink_vars>>

\* main, "2. Optimize": optimize_and_filter on each raw list / on raw_nets.
Optimize ==
    /\ pc = "optimize"
    /\ collapsed' = collapse_addresses(of_version(networks, 4))
                    \o collapse_addresses(of_version(networks, 6))
    /\ clean' = IF script = "nft"
                THEN optimize_and_filter(of_version(networks, 4), whitelist)
                     \o optimize_and_filter(of_version(networks, 6), whitelist)
                ELSE cs_optimize_and_filter(networks, whitelist)
    /\ pc' = "safety_check"
    /\ UNCHANGED <<script, networks, whitelist, parse_vars, guard_vars, fetch_vars, sink_vars,
                   outcome>>

\* "if total_ips < MIN_IPS"
below_threshold_or_equal(total_ips) == total_ips <= MIN_IPS

below_threshold(total_ips) == total_ips < MIN_IPS

\* main, "3. Safety Check": total_ips = len(v4_clean) + len(v6_clean) /
\* len(clean_nets); sys.exit(1) below MIN_IPS.
SafetyCheck ==
    /\ pc = "safety_check"
    /\ IF below_threshold(Len(clean))
       THEN pc' = "done" /\ outcome' = "safety_brake"
       ELSE /\ pc' = IF script = "nft" THEN "nft_check" ELSE "get_existing"
            /\ outcome' = outcome
    /\ UNCHANGED <<script, engine_vars, parse_vars, guard_vars, fetch_vars, sink_vars>>

\* apply_nftables: "nft -c -f nft_path"; return False when it fails.
NftCheck ==
    /\ pc = "nft_check"
    /\ sink_calls' = Append(sink_calls, "nft -c -f")
    /\ \/ pc' = "nft_delete" /\ outcome' = outcome
       \/ pc' = "done" /\ outcome' = "check_failed"
    /\ UNCHANGED <<script, engine_vars, parse_vars, guard_vars, fetch_vars, table, decisions,
                   existing_decisions, handed>>

\* apply_nftables: "nft delete table inet NFT_TABLE"; the table is absent
\* afterwards (an error for a table that does not exist is ignored).
NftDelete ==
    /\ pc = "nft_delete"
    /\ sink_calls' = Append(sink_calls, "nft delete table")
    /\ table' = "absent"
    /\ pc' = "nft_load"
    /\ UNCHANGED <<script, engine_vars, parse_vars, guard_vars, fetch_vars, decisions,
                   existing_decisions, handed, outcome>>

\* apply_nftables: "nft -f nft_path" with v4_clean and v6_clean as elements.
NftLoad ==
    /\ pc = "nft_load"
    /\ sink_calls' = Append(sink_calls, "nft -f")
    /\ handed' = {net_str(n) : n \in Range(clean)}
    /\ \/ table' = "loaded" /\ outcome' = "applied"
       \/ table' = table /\ outcome' = "apply_failed"
    /\ pc' = "done"
    /\ UNCHANGED <<script, engine_vars, parse_vars, guard_vars, fetch_vars, decisions,
                   existing_decisions>>

\* cs-import.py get_existing_decisions: the values in the database, or the
\* empty set when cscli fails or its output is empty, "null" or not JSON;
\* then new_to_import_str = clean_nets_str - existing.
new_to_import_str(nets, existing) == {net_str(n) : n \in Range(nets)} \ existing

GetExisting ==
    /\ pc = "get_existing"
    /\ sink_calls' = Append(sink_calls, "cscli decisions list")
    /\ \E existing \in {decisions, {}} :
          /\ existing_decisions' = existing
          /\ IF new_to_import_str(clean, existing) # {}
             THEN pc' = "import" /\ outcome' = outcome
             ELSE pc' = "done" /\ outcome' = "up_to_date"
    /\ UNCHANGED <<script, engine_vars, parse_vars, guard_vars, fetch_vars, table, decisions,
                   handed>>

\* cs-import.py import_decisions(mode, new_to_import_str): cscli decisions
\* import; on a non-zero return code nothing is recorded.
Import ==
    /\ pc = "import"
    /\ sink_calls' = Append(sink_calls, "cscli decisions import")
    /\ handed' = new_to_import_str(clean, existing_decisions)
    /\ \/ decisions' = decisions \cup handed' /\ outcome' = "imported"
       \/ decisions' = decisions /\ outcome' = "import_failed"
    /\ pc' = "done"
    /\ UNCHANGED <<script, engine_vars, parse_vars, guard_vars, fetch_vars, table,
                   existing_decisions>>

Next ==
    \/ DetectMode
    \/ Submit
    \/ \E s \in Sources : StartTask(s)
    \/ \E s \in Sources : FetchOk(s)
    \/ \E s \in Sources : FetchRaise(s)
    \/ \E s \in Sources : FetchNot200(s)
    \/ \E s \in Sources : Consume(s)
    \/ ReturnLists
    \/ CheckRaw
    \/ Optimize
    \/ SafetyCheck
    \/ NftCheck
    \/ NftDelete
    \/ NftLoad
    \/ GetExisting
    \/ Import

Spec == Init /\ [][Next]_vars

\* sys.exit(1) in main or detect_mode; otherwise main returns.
exit_code == IF outcome \in {"no_crowdsec", "no_ips", "safety_brake"} THEN 1 ELSE 0

----------------------------------------------------------------------------
(* Properties of a whole run, checked under Spec *)

\* main has passed "3. Safety Check" (the check has been evaluated).
PastSafetyCheck ==
    \/ pc \in {"nft_check", "nft_delete", "nft_load", "get_existing", "import"}
    \/ pc = "done" /\ outcome \notin {"no_crowdsec", "no_ips"}

\* No sink command has run and the nftables table and the decisions database
\* are as they were before the run.
SinkUntouched ==
    /\ sink_calls = <<>>
    /\ handed = {}
    /\ table = "prior"
    /\ decisions = IF script = "cs" THEN PriorDecisions ELSE {}

\* C5 -- Safety brake.  Once the safety check has been evaluated: a cleaned
\* count (IPv4 plus IPv6) below MIN_IPS means the run has ended with the
\* safety brake, exit code 1, no sink command run and the prior table and
\* decisions untouched; a count of MIN_IPS or more means the run is not
\* rejected by the brake.  The brake is the outcome of no other run.
C5_SafetyBrake ==
    /\ (PastSafetyCheck /\ Len(clean) < MIN_IPS)
          => (pc = "done" /\ outcome = "safety_brake" /\ exit_code = 1 /\ SinkUntouched)
    /\ (PastSafetyCheck /\ Len(clean) >= MIN_IPS) => outcome # "safety_brake"
    /\ outcome = "safety_brake" => (PastSafetyCheck /\ Len(clean) < MIN_IPS)

\* A run that cleaned one network fewer than MIN_IPS and was stopped.
C5_Witness ==
    /\ pc = "done" /\ outcome = "safety_brake"
    /\ Len(clean) = MIN_IPS - 1

\* C6 -- No partial application, as the specification states it: what the
\* sink has been handed is nothing or the whole cleaned set, and no run ends
\* with the prior table removed and the new set not loaded.
C6_NoPartialApplication ==
    /\ handed = {} \/ handed = {net_str(n) : n \in Range(clean)}
    /\ pc = "done" => table # "absent"

\* Source s was fetched and its body parsed to at least one network.
Yields(s) ==
    /\ task[s].state = "done"
    /\ task[s].result # "None"
    /\ parse_ips(script, BLOCKLISTS[s], TextOf(task[s].result)) # <<>>

\* fetch_url returned None for source s.
Failed(s) == task[s].state = "done" /\ task[s].result = "None"

\* What a finished run in which some source yielded networks looks like: it
\* did not stop for want of addresses, it collapsed and filtered the raw lists
\* and evaluated the safety check, and if it exited with code 1 it was the
\* safety brake that stopped it.
ProceededToSafetyCheck ==
    (pc = "done" /\ \E s \in Sources : Yields(s))
        => /\ outcome # "no_ips"
           /\ collapsed # <<>>
           /\ PastSafetyCheck
           /\ (exit_code = 1 => outcome = "safety_brake")

\* C9 -- Partial source failure is not a pipeline failure.  When at least one
\* source yielded networks, however many returned None: the emptiness check
\* is followed by optimize_and_filter, which is followed by the safety check
\* with the collapsed list non-empty, and the safety check has then been
\* evaluated; the run ends with exit code 1 only through the safety brake; and
\* a finished run has been through all of it.
C9_PartialFailureProceeds ==
    /\ []ProceededToSafetyCheck
    /\ [][ (\E s \in Sources : Yields(s))
              => /\ pc = "check_raw" => pc' = "optimize"
                 /\ pc = "optimize" => (pc' = "safety_check" /\ collapsed' # <<>>)
                 /\ pc = "safety_check" => PastSafetyCheck'
                 /\ (pc' = "done" /\ exit_code' = 1) => outcome' = "safety_brake"
         ]_vars

\* A run in which one source failed, another yielded networks, and the
\* cleaned list was applied.
C9_Witness ==
    /\ pc = "done"
    /\ \E s \in Sources : Failed(s)
    /\ \E s \in Sources : Yields(s)
    /\ outcome \in {"applied", "imported"}

\* C10, as the specification states it: networks are in the raw lists only
\* once every fetch task has completed.
C10_MergedAfterAllFetched ==
    networks # <<>> => \A s \in Sources : task[s].state = "done"

\* C10 -- Single writer, merging as tasks complete.  Every change of the raw
\* lists is a turn of the main thread's as_completed loop for a source whose
\* fetch task has completed and has not been merged before, and no fetch task
\* changes in that step; main leaves the loop only when every fetch task has
\* completed and been merged.
C10_MergedByMainAsCompleted ==
    [][ /\ networks' # networks
            => /\ pc = "as_completed"
               /\ task' = task
               /\ \E s \in Sources :
                     /\ task[s].state = "done"
                     /\ s \notin Range(processed)
                     /\ processed' = Append(processed, s)
        /\ (pc = "as_completed" /\ pc' # "as_completed")
            => \A s \in Sources :
                  task[s].state = "done" /\ s \in Range(processed)
      ]_vars

\* Networks of one source are in the raw lists while another fetch still runs.
C10_Witness ==
    /\ networks # <<>>
    /\ \E s \in Sources : task[s].state = "running"

----------------------------------------------------------------------------
(* The three-column rule, checked under SpecParse *)

\* A line of three columns whose first is a bare address and whose third is
\* a prefix length.
ThreeColumns(line) ==
    /\ line.kind = "net"
    /\ line.plen = NoPrefix
    /\ line.col3 # NoCol
    /\ 0 <= line.col3 /\ line.col3 <= max_prefixlen

\* The network the three-column rule names for a line of a source: column 1
\* with column 3 as its prefix for a three-column DShield line, column 1 alone
\* otherwise.
RuleNet(name, line) ==
    IF name = "DShield" /\ ThreeColumns(line)
    THEN ip_network(line.version, line.addr, line.col3)
    ELSE ip_network(line.version, line.addr,
                    IF line.plen = NoPrefix THEN max_prefixlen ELSE line.plen)

\* C11 -- Three-column source rule, as the specification states it: in both
\* scripts, every line whose first column is an address or a network yields
\* the network of the rule (when is_safe_ip accepts it), masked, and a text of
\* one such line yields nothing else.
C11_ThreeColumnRule ==
    pc = "parsed" =>
        /\ \A i \in 1..Len(text) :
              (text[i].kind = "net" /\ is_safe_ip(RuleNet(feed, text[i])))
                  => RuleNet(feed, text[i]) \in Range(networks)
        /\ (Len(text) = 1 /\ text[1].kind = "net")
              => Range(networks) \subseteq {RuleNet(feed, text[1])}

----------------------------------------------------------------------------
(* fetch_url, checked under Spec *)

\* C12 -- fetch_url makes at most RETRIES requests, as stated: no call of
\* fetch_url that is still running has made more than RETRIES requests,
\* whatever the server answered.
C12_AtMostRetriesRequests ==
    \A s \in Sources : task[s].requests <= RETRIES

----------------------------------------------------------------------------
(* SpecGuard: the lock-file guard of main, for runs of one script started   *)
(* at any time against the same lock file.  A run's pid is its number.      *)
(* What a run does between the guard and its finally block (the run Spec    *)
(* describes) is one step here.                                             *)

Runs == 1..NumRuns

\* os.kill(pid, 0) succeeds: the pid is that of a run that is started and
\* has not exited.
alive(pid) == pid \in Runs /\ run[pid].pc \notin {"unstarted", "exited"}

\* int(f.read().strip()) succeeds.
is_pid(content) == content.kind = "pid"

InitGuard ==
    /\ script \in {"nft", "cs"}
    /\ pc = "guard"
    /\ networks = <<>>
    /\ whitelist = <<>>
    /\ collapsed = <<>>
    /\ clean = <<>>
    /\ feed = "none"
    /\ text = <<>>
    /\ task = <<>>
    /\ processed = <<>>
    /\ table = "prior"
    /\ decisions = {}
    /\ existing_decisions = {}
    /\ handed = {}
    /\ sink_calls = <<>>
    /\ outcome = "running"
    /\ lock_file \in {Absent, PidFile(0), Garbage}
    /\ run = [r \in Runs |-> [pc |-> "unstarted", pid |-> 0, saw_live |-> FALSE]]

\* The script is started.
StartRun(r) ==
    /\ run[r].pc = "unstarted"
    /\ run' = [run EXCEPT ![r].pc = "exists"]
    /\ UNCHANGED <<script, pc, engine_vars, parse_vars, fetch_vars, sink_vars,
                   outcome, lock_file>>

\* main: if os.path.exists(lock_file)
GuardExists(r) ==
    /\ run[r].pc = "exists"
    /\ run' = [run EXCEPT ![r].pc = IF lock_file = Absent THEN "open_w" ELSE "read"]
    /\ UNCHANGED <<script, pc, engine_vars, parse_vars, fetch_vars, sink_vars,
                   outcome, lock_file>>

\* main: open(lock_file, 'r') and int(f.read().strip()).  A file that has
\* gone raises FileNotFoundError (an OSError), content that is no number
\* raises ValueError: both scripts go to their except branch.
GuardRead(r) ==
    /\ run[r].pc = "read"
    /\ run' = IF is_pid(lock_file)
              THEN [run EXCEPT ![r].pc = "kill", ![r].pid = lock_file.pid]
              ELSE [run EXCEPT ![r].pc = "remove"]
    /\ UNCHANGED <<script, pc, engine_vars, parse_vars, fetch_vars, sink_vars,
                   outcome, lock_file>>

\* main: os.kill(pid, 0), then log.error and sys.exit(1).  For a dead pid
\* os.kill raises ProcessLookupError (an OSError).  For a live pid,
\* import-blocklists.py exits: "except (OSError, ValueError)" lets SystemExit
\* through.  In cs-import.py the bare "except:" catches the SystemExit that
\* sys.exit(1) raises, and the run goes on to os.remove(lock_file).
GuardKill(r) ==
    /\ run[r].pc = "kill"
    /\ run' = IF alive(run[r].pid)
              THEN [run EXCEPT ![r].saw_live = TRUE,
                               ![r].pc = IF script = "nft" THEN "exited" ELSE "remove"]
              ELSE [run EXCEPT ![r].pc = "remove"]
    /\ UNCHANGED <<script, pc, engine_vars, parse_vars, fetch_vars, sink_vars,
                   outcome, lock_file>>

\* main, except branch: os.remove(lock_file).  When the file has gone,
\* FileNotFoundError leaves the except branch uncaught and the run ends.
GuardRemove(r) ==
    /\ run[r].pc = "remove"
    /\ IF lock_file = Absent
       THEN run' = [run EXCEPT ![r].pc = "exited"] /\ lock_file' = lock_file
       ELSE run' = [run EXCEPT ![r].pc = "open_w"] /\ lock_file' = Absent
    /\ UNCHANGED <<script, pc, engine_vars, parse_vars, fetch_vars, sink_vars,
                   outcome>>

\* main: open(lock_file, 'w') creates or truncates the file.
LockOpen(r) ==
    /\ run[r].pc = "open_w"
    /\ lock_file' = Empty
    /\ run' = [run EXCEPT ![r].pc = "write"]
    /\ UNCHANGED <<script, pc, engine_vars, parse_vars, fetch_vars, sink_vars,
                   outcome>>

\* main: f.write(str(os.getpid())), flushed when the with block closes the
\* file.  The run is past the guard.
LockWrite(r) ==
    /\ run[r].pc = "write"
    /\ lock_file' = PidFile(r)
    /\ run' = [run EXCEPT ![r].pc = "body"]
    /\ UNCHANGED <<script, pc, engine_vars, parse_vars, fetch_vars, sink_vars,
                   outcome>>

\* main: the body of "try:", to its end or to a sys.exit(1).
Body(r) ==
    /\ run[r].pc = "body"
    /\ run' = [run EXCEPT ![r].pc = "finally"]
    /\ UNCHANGED <<script, pc, engine_vars, parse_vars, fetch_vars, sink_vars,
                   outcome, lock_file>>

\* main, finally: if os.path.exists(lock_file)
FinallyExists(r) ==
    /\ run[r].pc = "finally"
    /\ run' = [run EXCEPT ![r].pc = IF lock_file = Absent THEN "exited"
                                    ELSE "finally_remove"]
    /\ UNCHANGED <<script, pc, engine_vars, parse_vars, fetch_vars, sink_vars,
                   outcome, lock_file>>

\* main, finally: os.remove(lock_file), whoever wrote the file; the run ends
\* (with FileNotFoundError when the file has gone).
FinallyRemove(r) ==
    /\ run[r].pc = "finally_remove"
    /\ lock_file' = Absent
    /\ run' = [run EXCEPT ![r].pc = "exited"]
    /\ UNCHANGED <<script, pc, engine_vars, parse_vars, fetch_vars, sink_vars,
                   outcome>>

NextGuard ==
    \/ \E r \in Runs : StartRun(r)
    \/ \E r \in Runs : GuardExists(r)
    \/ \E r \in Runs : GuardRead(r)
    \/ \E r \in Runs : GuardKill(r)
    \/ \E r \in Runs : GuardRemove(r)
    \/ \E r \in Runs : LockOpen(r)
    \/ \E r \in Runs : LockWrite(r)
    \/ \E r \in Runs : Body(r)
    \/ \E r \in Runs : FinallyExists(r)
    \/ \E r \in Runs : FinallyRemove(r)

SpecGuard == InitGuard /\ [][NextGuard]_vars

\* The run has written the lock file and is in, or leaving, its try block.
PastGuard(r) == run[r].pc \in {"body", "finally", "finally_remove"}

\* C13 -- Run guard mutual exclusion, as stated: at most one run is past the
\* lock-file guard at any time, and a run that found the lock file naming a
\* live process has exited (it never gets past the guard).
C13_RunGuardMutualExclusion ==
    /\ Cardinality({r \in Runs : PastGuard(r)}) <= 1
    /\ \A r \in Runs : run[r].saw_live => run[r].pc = "exited"

====
